---- MODULE Spec2Model ----
(***************************************************************************)
(* Model of bank_miniproject_interactive.py: the SQLite tables, the        *)
(* in-memory entity objects (snapshots) and the operations on them.        *)
(*                                                                         *)
(* Amounts are Python floats and SQLite REALs (IEEE-754 doubles).  They    *)
(* are modelled as integers rounded to MantissaBits significant bits with  *)
(* round-half-to-even, a scaled-down double: every arithmetic result is    *)
(* rounded the way the double addition / subtraction rounds it.            *)
(*                                                                         *)
(* None (a failed insert, an unsaved object) is the id 0; the ids the      *)
(* store assigns start at 1 (AUTOINCREMENT), so Python's truth test        *)
(* "if new_id" is "new_id # 0".                                            *)
(***************************************************************************)
EXTENDS Integers, Sequences, FiniteSets

VARIABLES
    customers,      \* table customers: sequence of rows, customer_id = index
    employees,      \* table employees
    accounts,       \* table accounts
    transactions,   \* table transactions
    loans,          \* table loans
    credit_cards,   \* table credit_cards
    customerObj,    \* Customer objects held by callers
    accountObj,     \* Account objects held by callers, by slot
    loanObj,        \* Loan objects held by callers
    cardObj,        \* CreditCard objects held by callers
    schema,         \* the store as BankDatabase.__init__ left it
    last            \* the last call: operation, arguments, result, log lines, writes

vars == <<customers, employees, accounts, transactions, loans, credit_cards,
          customerObj, accountObj, loanObj, cardObj, schema, last>>

----------------------------------------------------------------------------
(* Bounds *)

\* significant bits of a float (a double has 53)
MantissaBits == 3

\* the model stops at balances beyond MaxValue
MaxValue == 16

\* the model stops at MaxTransactions rows in the transactions table
MaxTransactions == 2

\* the ids the accounts table can assign in the model
AccountIds == {1}

\* the places where a caller keeps an Account object
AccountSlots == {1, 2}

\* the ids the other tables can assign in the model
CustomerIds == {1}

EmployeeIds == {1}

LoanIds == {1}

CardIds == {1}

\* the places where a caller keeps a Customer, a Loan, a CreditCard object
CustomerSlots == {1}

LoanSlots == {1}

CardSlots == {1, 2}

----------------------------------------------------------------------------
(* float arithmetic *)

RECURSIVE Pow2(_)
Pow2(n) == IF n = 0 THEN 1 ELSE 2 * Pow2(n - 1)

\* the spacing of the floats around n >= 0: the least power of two u with
\* n \div u < 2^MantissaBits
RECURSIVE UlpFrom(_, _)
UlpFrom(n, u) == IF n \div u < Pow2(MantissaBits) THEN u ELSE UlpFrom(n, 2 * u)

\* n >= 0 rounded to the nearest float, ties to the even mantissa
RoundNat(n) ==
    LET u == UlpFrom(n, 1)
        q == n \div u
        r == n % u
    IN  IF 2 * r < u THEN q * u
        ELSE IF 2 * r > u THEN (q + 1) * u
        ELSE IF q % 2 = 0 THEN q * u
        ELSE (q + 1) * u

Fl(x) == IF x >= 0 THEN RoundNat(x) ELSE 0 - RoundNat(0 - x)

IsFloat(x) == Fl(x) = x

FlAdd(a, b) == Fl(a + b)

FlSub(a, b) == Fl(a - b)

----------------------------------------------------------------------------
(* input domains *)

\* the initial deposits typed at the prompt of create_account
InitialDeposits == {x \in {0 - 1, 1} : IsFloat(x)}

\* the amounts typed at the prompt of perform_transaction
Amounts == {x \in {0, 8} : IsFloat(x)}

AccountTypes == {"Savings", "Other"}

\* the credit limits typed at the prompt of issue_credit_card
CreditLimits == {x \in {14} : IsFloat(x)}

\* the amounts passed to make_purchase
PurchaseAmounts == {x \in {0, 3, 12} : IsFloat(x)}

\* the loan amounts and interest rates (in percent) typed at the prompts of
\* apply_for_loan
LoanAmounts == {x \in {8} : IsFloat(x)}

LoanRates == {x \in {5} : IsFloat(x)}

\* the salaries typed at the prompt of add_employee
Salaries == {x \in {8} : IsFloat(x)}

\* the texts typed at the name prompts, as sequences of characters
Names == {<<>>, <<" ">>, <<"A">>}

\* the addresses typed at the address prompt, and those assigned later
Addresses == {<<"B">>}

NewAddresses == {<<"B">>, <<"C">>}

Positions == {<<"T">>}

\* the outcomes of the two storage writes of deposit and withdraw: the
\* UPDATE and, when it succeeded, the INSERT of the transaction
WriteOutcomes == {<<TRUE, TRUE>>, <<TRUE, FALSE>>, <<FALSE, FALSE>>}

----------------------------------------------------------------------------
(* the record of a call, as its caller and the log see it *)

\* op: the operation; obj: the object (slot or index) it was called on;
\* ok: the call reported success (True, an id, an object);
\* id: the id a save_new returned (0 for None);
\* logs: the severities of the log lines the call emitted, in order;
\* writes: the outcome of every storage write the call issued, in order;
\* snapBefore, rowBefore: the mutated field of the object and of its row
\* before the call (hadRow: the object's id named a row);
\* rowsBefore: the number of rows, before the call, of the table the call
\* inserts into.
Call(op, obj, amount, ok, id, logs, writes, snapBefore, hadRow, rowBefore, rowsBefore) ==
    [op |-> op, obj |-> obj, amount |-> amount, ok |-> ok, id |-> id,
     logs |-> logs, writes |-> writes,
     snapBefore |-> snapBefore, hadRow |-> hadRow, rowBefore |-> rowBefore,
     rowsBefore |-> rowsBefore]

NoCall == Call("none", 0, 0, FALSE, 0, <<>>, <<>>, 0, FALSE, 0, 0)

\* BaseEntity._execute_dml logs one error line when the statement fails
DmlLog(ok) == IF ok THEN <<>> ELSE <<"error">>

\* BaseEntity._fetch_record logs one error line when the SELECT fails
FetchLog(ok) == IF ok THEN <<>> ELSE <<"error">>

----------------------------------------------------------------------------
(* BankDatabase: the connection and the tables *)

\* the tables of create_tables, in the order of its CREATE TABLE statements
SchemaTables ==
    <<"customers", "accounts", "transactions", "employees", "loans",
      "credit_cards">>

\* the tables the first n CREATE TABLE statements have created (each
\* statement takes effect at once: sqlite3 opens no transaction for it)
TablesUpTo(n) == {SchemaTables[i] : i \in 1 .. n}

\* built: __init__ returned a BankDatabase; tables: the tables that exist;
\* failed: create_tables caught an sqlite3.Error; raised: an exception
\* reached the caller of the constructor
NoSchema == [built |-> FALSE, tables |-> {}, failed |-> FALSE, raised |-> FALSE]

SchemaReady ==
    [built |-> TRUE, tables |-> TablesUpTo(Len(SchemaTables)), failed |-> FALSE,
     raised |-> FALSE]

\* where create_tables fails: nowhere (0), at its k-th CREATE TABLE, or at
\* the commit that follows the last one
SchemaFailurePoints == 0 .. Len(SchemaTables) + 1

\* create_tables: the except clause logs the error and the method returns
CreateTables(failAt) ==
    [built |-> TRUE,
     tables |-> IF failAt = 0 THEN TablesUpTo(Len(SchemaTables))
                ELSE TablesUpTo(failAt - 1),
     failed |-> failAt # 0,
     raised |-> FALSE]

CreateTablesLog(failAt) == IF failAt = 0 THEN <<"info">> ELSE <<"error">>

\* a statement on a table that does not exist raises sqlite3.OperationalError
TableReady(t) == t \in schema.tables

\* BankDatabase.__init__ (BankSystem.__init__ calls it): sqlite3.connect,
\* whose exception nothing catches, then create_tables; amount of the call
\* record is the point of failure
BankDatabaseInit(connectOk, failAt) ==
    /\ ~schema.built
    /\ ~schema.raised
    /\ IF connectOk
       THEN /\ schema' = CreateTables(failAt)
            /\ last' = Call("create_tables", 0, failAt, failAt = 0, 0,
                            CreateTablesLog(failAt), <<>>, 0, FALSE, 0, 0)
       ELSE /\ schema' = [NoSchema EXCEPT !.raised = TRUE]
            /\ last' = Call("connect", 0, 0, FALSE, 0, <<>>, <<>>, 0, FALSE, 0, 0)
    /\ UNCHANGED <<customers, employees, accounts, transactions, loans,
                   credit_cards, customerObj, accountObj, loanObj, cardObj>>

----------------------------------------------------------------------------
(* Customer, Employee *)

NoCustomerObj == [live |-> FALSE, customer_id |-> 0, address |-> <<>>]

\* str.strip(): the text without its leading and trailing blanks
RECURSIVE LStrip(_)
LStrip(t) == IF t # <<>> /\ Head(t) = " " THEN LStrip(Tail(t)) ELSE t

RECURSIVE RStrip(_)
RStrip(t) ==
    IF t # <<>> /\ t[Len(t)] = " " THEN RStrip(SubSeq(t, 1, Len(t) - 1)) ELSE t

Strip(t) == RStrip(LStrip(t))

\* datetime.date.today().isoformat(), the join date of a new customer
Today == "today"

\* Customer.save_new: the INSERT (no check of the names: the columns are
\* NOT NULL, and an empty text is not NULL); amount of the call record of an
\* insert of a customer or an employee is the pair of names inserted
CustomerInsert(first_name, last_name, address) ==
    Append(customers, [first_name |-> first_name, last_name |-> last_name,
                       address |-> address, join_date |-> Today])

\* Customer(...).save_new() called directly; the object is kept in slot s
CustomerSaveNew(s, first_name, last_name, address, ok) ==
    /\ LET done(success, id, logs, writes) ==
               Call("customer_save_new", s, <<first_name, last_name>>, success,
                    id, logs, writes, 0, FALSE, 0, Len(customers))
       IN  IF ok
           THEN /\ Len(customers) + 1 \in CustomerIds
                /\ customers' = CustomerInsert(first_name, last_name, address)
                /\ customerObj' = [customerObj EXCEPT ![s] =
                       [live |-> TRUE, customer_id |-> Len(customers) + 1,
                        address |-> address]]
                /\ last' = done(TRUE, Len(customers) + 1, <<"info">>, <<TRUE>>)
           ELSE /\ customerObj' = [customerObj EXCEPT ![s] =
                       [live |-> TRUE, customer_id |-> 0, address |-> address]]
                /\ last' = done(FALSE, 0, DmlLog(FALSE), <<FALSE>>)
                /\ UNCHANGED customers
    /\ UNCHANGED <<schema, employees, accounts, transactions, loans, credit_cards,
                   accountObj, loanObj, cardObj>>

\* BankSystem.create_customer: the names are required
NamesMissing(first_name, last_name) == first_name = <<>> \/ last_name = <<>>

\* BankSystem.create_customer, with Customer.save_new; the Customer object is
\* a local of create_customer and is gone when it returns
CreateCustomer(first_input, last_input, address_input, ok) ==
    /\ LET first_name == Strip(first_input)
           last_name == Strip(last_input)
           address == Strip(address_input)
           done(success, id, logs, writes) ==
               Call("create_customer", 0, <<first_name, last_name>>, success,
                    id, logs, writes, 0, FALSE, 0, Len(customers))
       IN  IF NamesMissing(first_name, last_name)
           THEN /\ last' = done(FALSE, 0, <<"warning">>, <<>>)
                /\ UNCHANGED customers
           ELSE IF ok
           THEN /\ Len(customers) + 1 \in CustomerIds
                /\ customers' = CustomerInsert(first_name, last_name, address)
                /\ last' = done(TRUE, Len(customers) + 1, <<"info">>, <<TRUE>>)
           ELSE /\ last' = done(FALSE, 0, DmlLog(FALSE), <<FALSE>>)
                /\ UNCHANGED customers
    /\ UNCHANGED <<schema, employees, accounts, transactions, loans, credit_cards,
                   customerObj, accountObj, loanObj, cardObj>>

\* Customer.load: the object is kept in slot s when a row is found
LoadCustomer(s, customer_id, readOk) ==
    /\ IF readOk /\ customer_id \in DOMAIN customers
       THEN /\ customerObj' = [customerObj EXCEPT ![s] =
                   [live |-> TRUE, customer_id |-> customer_id,
                    address |-> customers[customer_id].address]]
            /\ last' = Call("load_customer", s, 0, TRUE, customer_id, <<>>,
                            <<>>, 0, TRUE, 0, 0)
       ELSE /\ last' = Call("load_customer", s, 0, FALSE, 0,
                            FetchLog(readOk) \o <<"warning">>, <<>>, 0, FALSE, 0, 0)
            /\ UNCHANGED customerObj
    /\ UNCHANGED <<schema, customers, employees, accounts, transactions, loans,
                   credit_cards, accountObj, loanObj, cardObj>>

\* the address setter of Customer: the object's address is set, then the
\* UPDATE is issued when the object has an id; an assignment returns nothing
\* to its caller, so the call never reports a failure (ok of the call record
\* is TRUE)
SetAddress(s, new_address, ok) ==
    /\ customerObj[s].live
    /\ LET o == customerObj[s]
           id == o.customer_id
           hasRow == id \in DOMAIN customers
       IN  /\ customerObj' = [customerObj EXCEPT ![s].address = new_address]
           /\ customers' = IF id # 0 /\ ok /\ hasRow
                           THEN [customers EXCEPT ![id].address = new_address]
                           ELSE customers
           /\ last' = Call("set_address", s, new_address, TRUE, 0,
                           IF id = 0 THEN <<>>
                           ELSE IF ok THEN <<"info">> ELSE DmlLog(FALSE),
                           IF id = 0 THEN <<>> ELSE <<ok>>,
                           o.address, hasRow,
                           IF hasRow THEN customers[id].address ELSE <<>>, 0)
    /\ UNCHANGED <<schema, employees, accounts, transactions, loans, credit_cards,
                   accountObj, loanObj, cardObj>>

\* Employee.save_new: the INSERT (no check of the names)
EmployeeInsert(first_name, last_name, position, salary) ==
    Append(employees, [first_name |-> first_name, last_name |-> last_name,
                       position |-> position, salary |-> salary])

\* Employee(...).save_new() called directly
EmployeeSaveNew(first_name, last_name, position, salary, ok) ==
    /\ LET done(success, id, logs, writes) ==
               Call("employee_save_new", 0, <<first_name, last_name>>, success,
                    id, logs, writes, 0, FALSE, 0, Len(employees))
       IN  IF ok
           THEN /\ Len(employees) + 1 \in EmployeeIds
                /\ employees' = EmployeeInsert(first_name, last_name, position, salary)
                /\ last' = done(TRUE, Len(employees) + 1, <<"info">>, <<TRUE>>)
           ELSE /\ last' = done(FALSE, 0, DmlLog(FALSE), <<FALSE>>)
                /\ UNCHANGED employees
    /\ UNCHANGED <<schema, customers, accounts, transactions, loans, credit_cards,
                   customerObj, accountObj, loanObj, cardObj>>

\* BankSystem.add_employee, with Employee.save_new: the texts are stripped
\* and the names are not checked
AddEmployee(first_input, last_input, position_input, salary, ok) ==
    /\ LET first_name == Strip(first_input)
           last_name == Strip(last_input)
           position == Strip(position_input)
           done(success, id, logs, writes) ==
               Call("add_employee", 0, <<first_name, last_name>>, success,
                    id, logs, writes, 0, FALSE, 0, Len(employees))
       IN  IF ok
           THEN /\ Len(employees) + 1 \in EmployeeIds
                /\ employees' = EmployeeInsert(first_name, last_name, position, salary)
                /\ last' = done(TRUE, Len(employees) + 1, <<"info">>, <<TRUE>>)
           ELSE /\ last' = done(FALSE, 0, DmlLog(FALSE), <<FALSE>>)
                /\ UNCHANGED employees
    /\ UNCHANGED <<schema, customers, accounts, transactions, loans, credit_cards,
                   customerObj, accountObj, loanObj, cardObj>>

----------------------------------------------------------------------------
(* Account *)

NoAccountObj == [live |-> FALSE, account_id |-> 0, customer_id |-> 0,
                 balance |-> 0, account_type |-> ""]

AccountRow(id) == accounts[id]

HasAccountRow(id) == id \in DOMAIN accounts

\* the balance column of the row an UPDATE ... WHERE account_id = id touches
RowBalance(id) == IF HasAccountRow(id) THEN accounts[id].balance ELSE 0

\* Account._record_transaction: the INSERT; account_id is NOT NULL, so the
\* statement fails for an unsaved account.  Its result is dropped.
TxnInserted(id, txnOk) == txnOk /\ id # 0

RecordTransaction(id, txn_type, amount, txnOk) ==
    IF TxnInserted(id, txnOk)
    THEN Append(transactions,
                [account_id |-> id, txn_type |-> txn_type, amount |-> amount])
    ELSE transactions

\* a deposit that lets the amount 0 through
DepositRejectsNegative(amount) == amount < 0

\* Account.deposit: the amount check
DepositRejects(amount) == amount <= 0

\* a withdraw without the funds check
WithdrawRejectsAmountOnly(balance, amount) == amount <= 0

\* Account.withdraw: the amount check and the funds check
WithdrawRejects(balance, amount) == amount <= 0 \/ amount > balance

\* an UPDATE that sets the balance to the amount instead of adding it
UpdateBalanceSet(id, amount) ==
    IF HasAccountRow(id)
    THEN [accounts EXCEPT ![id].balance = amount]
    ELSE accounts

\* UPDATE accounts SET balance = balance + ? WHERE account_id = ?
UpdateBalanceAdd(id, amount) ==
    IF HasAccountRow(id)
    THEN [accounts EXCEPT ![id].balance = FlAdd(@, amount)]
    ELSE accounts

\* UPDATE accounts SET balance = balance - ? WHERE account_id = ?
UpdateBalanceSub(id, amount) ==
    IF HasAccountRow(id)
    THEN [accounts EXCEPT ![id].balance = FlSub(@, amount)]
    ELSE accounts

\* the model's caps on the values and on the transactions table
WithinBounds(rowBal, snapBal, inserted) ==
    /\ rowBal <= MaxValue /\ rowBal >= 0 - MaxValue
    /\ snapBal <= MaxValue /\ snapBal >= 0 - MaxValue
    /\ inserted => Len(transactions) < MaxTransactions

Deposit(s, amount, updOk, txnOk) ==
    /\ accountObj[s].live
    /\ LET o == accountObj[s]
           id == o.account_id
           before(ok, logs, writes) ==
               Call("deposit", s, amount, ok, 0, logs, writes,
                    o.balance, HasAccountRow(id), RowBalance(id),
                    Len(transactions))
       IN  IF DepositRejects(amount)
           THEN /\ last' = before(FALSE, <<"warning">>, <<>>)
                /\ UNCHANGED <<accounts, accountObj, transactions>>
           ELSE IF updOk
           THEN /\ WithinBounds(FlAdd(RowBalance(id), amount),
                                FlAdd(o.balance, amount), TxnInserted(id, txnOk))
                /\ accounts' = UpdateBalanceAdd(id, amount)
                /\ accountObj' = [accountObj EXCEPT ![s].balance = FlAdd(@, amount)]
                /\ transactions' = RecordTransaction(id, "Deposit", amount, txnOk)
                /\ last' = before(TRUE,
                                  DmlLog(TxnInserted(id, txnOk)) \o <<"info">>,
                                  <<TRUE, TxnInserted(id, txnOk)>>)
           ELSE /\ last' = before(FALSE, DmlLog(FALSE), <<FALSE>>)
                /\ UNCHANGED <<accounts, accountObj, transactions>>
    /\ UNCHANGED <<schema, customers, employees, loans, credit_cards,
                   customerObj, loanObj, cardObj>>

Withdraw(s, amount, updOk, txnOk) ==
    /\ accountObj[s].live
    /\ LET o == accountObj[s]
           id == o.account_id
           before(ok, logs, writes) ==
               Call("withdraw", s, amount, ok, 0, logs, writes,
                    o.balance, HasAccountRow(id), RowBalance(id),
                    Len(transactions))
       IN  IF WithdrawRejects(o.balance, amount)
           THEN /\ last' = before(FALSE, <<"warning">>, <<>>)
                /\ UNCHANGED <<accounts, accountObj, transactions>>
           ELSE IF updOk
           THEN /\ WithinBounds(FlSub(RowBalance(id), amount),
                                FlSub(o.balance, amount), TxnInserted(id, txnOk))
                /\ accounts' = UpdateBalanceSub(id, amount)
                /\ accountObj' = [accountObj EXCEPT ![s].balance = FlSub(@, amount)]
                /\ transactions' = RecordTransaction(id, "Withdrawal", amount, txnOk)
                /\ last' = before(TRUE,
                                  DmlLog(TxnInserted(id, txnOk)) \o <<"info">>,
                                  <<TRUE, TxnInserted(id, txnOk)>>)
           ELSE /\ last' = before(FALSE, DmlLog(FALSE), <<FALSE>>)
                /\ UNCHANGED <<accounts, accountObj, transactions>>
    /\ UNCHANGED <<schema, customers, employees, loans, credit_cards,
                   customerObj, loanObj, cardObj>>

\* Customer.load as the menu functions use it: the row is found
CustomerFound(customer_id, readOk) == readOk /\ customer_id \in DOMAIN customers

\* the log lines of Customer.load
CustomerLoadLog(customer_id, readOk) ==
    FetchLog(readOk) \o
    (IF CustomerFound(customer_id, readOk) THEN <<>> ELSE <<"warning">>)

\* BankSystem.create_account, with Account.save_new; the Account object is
\* a local of create_account and is gone when it returns
CreateAccount(customer_id, account_type, initial_deposit, readOk, ok) ==
    /\ LET done(success, id, logs, writes) ==
               Call("create_account", 0, initial_deposit, success, id, logs,
                    writes, 0, FALSE, 0, Len(accounts))
       IN  IF ~CustomerFound(customer_id, readOk)
           THEN /\ last' = done(FALSE, 0,
                                CustomerLoadLog(customer_id, readOk) \o <<"warning">>,
                                <<>>)
                /\ UNCHANGED accounts
           ELSE IF account_type \notin {"Checking", "Savings"}
           THEN /\ last' = done(FALSE, 0, <<"warning">>, <<>>)
                /\ UNCHANGED accounts
           ELSE IF ok
           THEN /\ Len(accounts) + 1 \in AccountIds
                /\ accounts' = Append(accounts,
                       [customer_id |-> customer_id, balance |-> initial_deposit,
                        account_type |-> account_type, is_active |-> 1])
                /\ last' = done(TRUE, Len(accounts) + 1, <<"info">>, <<TRUE>>)
           ELSE /\ last' = done(FALSE, 0, DmlLog(FALSE), <<FALSE>>)
                /\ UNCHANGED accounts
    /\ UNCHANGED <<schema, customers, employees, transactions, loans, credit_cards,
                   customerObj, accountObj, loanObj, cardObj>>

\* Account.load: the object is kept in slot s when a row is found
LoadAccount(s, account_id, readOk) ==
    /\ IF readOk /\ HasAccountRow(account_id)
       THEN /\ accountObj' = [accountObj EXCEPT ![s] =
                   [live |-> TRUE, account_id |-> account_id,
                    customer_id |-> AccountRow(account_id).customer_id,
                    balance |-> AccountRow(account_id).balance,
                    account_type |-> AccountRow(account_id).account_type]]
            /\ last' = Call("load_account", s, 0, TRUE, account_id, <<>>, <<>>,
                            0, TRUE, AccountRow(account_id).balance, 0)
       ELSE /\ last' = Call("load_account", s, 0, FALSE, 0,
                            FetchLog(readOk) \o <<"warning">>, <<>>, 0, FALSE, 0, 0)
            /\ UNCHANGED accountObj
    /\ UNCHANGED <<schema, customers, employees, accounts, transactions, loans,
                   credit_cards, customerObj, loanObj, cardObj>>

----------------------------------------------------------------------------
(* CreditCard *)

NoCardObj == [live |-> FALSE, card_id |-> 0, customer_id |-> 0,
              credit_limit |-> 0, current_debt |-> 0]

HasCardRow(id) == id \in DOMAIN credit_cards

\* the current_debt column of the row an UPDATE ... WHERE card_id = id touches
RowDebt(id) == IF HasCardRow(id) THEN credit_cards[id].current_debt ELSE 0

\* CreditCard.available_credit
AvailableCredit(o) == FlSub(o.credit_limit, o.current_debt)

\* CreditCard.make_purchase: the amount check and the credit check
PurchaseRejects(o, amount) == amount <= 0 \/ amount > AvailableCredit(o)

\* UPDATE credit_cards SET current_debt = ? WHERE card_id = ?
UpdateDebt(id, debt) ==
    IF HasCardRow(id)
    THEN [credit_cards EXCEPT ![id].current_debt = debt]
    ELSE credit_cards

\* CreditCard.make_purchase: the object's debt is raised before the UPDATE
\* is issued and stays raised when the UPDATE fails
MakePurchase(s, amount, ok) ==
    /\ cardObj[s].live
    /\ LET o == cardObj[s]
           id == o.card_id
           debt == FlAdd(o.current_debt, amount)
           before(success, logs, writes) ==
               Call("make_purchase", s, amount, success, 0, logs, writes,
                    o.current_debt, HasCardRow(id), RowDebt(id), 0)
       IN  IF PurchaseRejects(o, amount)
           THEN /\ last' = before(FALSE, <<"warning">>, <<>>)
                /\ UNCHANGED <<credit_cards, cardObj>>
           ELSE /\ cardObj' = [cardObj EXCEPT ![s].current_debt = debt]
                /\ IF ok
                   THEN /\ credit_cards' = UpdateDebt(id, debt)
                        /\ last' = before(TRUE, <<"info">>, <<TRUE>>)
                   ELSE /\ last' = before(FALSE, DmlLog(FALSE), <<FALSE>>)
                        /\ UNCHANGED credit_cards
    /\ UNCHANGED <<schema, customers, employees, accounts, transactions, loans,
                   customerObj, accountObj, loanObj>>

\* BankSystem.issue_credit_card, with CreditCard.save_new; the CreditCard
\* object (current_debt 0.0 by default) is kept in slot s
IssueCreditCard(s, customer_id, credit_limit, readOk, ok) ==
    /\ LET done(success, id, logs, writes) ==
               Call("issue_credit_card", s, credit_limit, success, id, logs,
                    writes, 0, FALSE, 0, Len(credit_cards))
           obj(id) == [live |-> TRUE, card_id |-> id, customer_id |-> customer_id,
                       credit_limit |-> credit_limit, current_debt |-> 0]
       IN  IF ~CustomerFound(customer_id, readOk)
           THEN /\ last' = done(FALSE, 0,
                                CustomerLoadLog(customer_id, readOk) \o <<"warning">>,
                                <<>>)
                /\ UNCHANGED <<credit_cards, cardObj>>
           ELSE IF ok
           THEN /\ Len(credit_cards) + 1 \in CardIds
                /\ credit_cards' = Append(credit_cards,
                       [customer_id |-> customer_id, credit_limit |-> credit_limit,
                        current_debt |-> 0, is_active |-> 1])
                /\ cardObj' = [cardObj EXCEPT ![s] = obj(Len(credit_cards) + 1)]
                /\ last' = done(TRUE, Len(credit_cards) + 1, <<"info">>, <<TRUE>>)
           ELSE /\ cardObj' = [cardObj EXCEPT ![s] = obj(0)]
                /\ last' = done(FALSE, 0, DmlLog(FALSE), <<FALSE>>)
                /\ UNCHANGED credit_cards
    /\ UNCHANGED <<schema, customers, employees, accounts, transactions, loans,
                   customerObj, accountObj, loanObj>>

\* CreditCard(db, card_id, customer_id, credit_limit, current_debt): a second
\* object of a card, constructed with the fields of the card's row (the class
\* has no load); the object is kept in slot s
CreditCardInit(s, card_id) ==
    /\ HasCardRow(card_id)
    /\ cardObj' = [cardObj EXCEPT ![s] =
           [live |-> TRUE, card_id |-> card_id,
            customer_id |-> credit_cards[card_id].customer_id,
            credit_limit |-> credit_cards[card_id].credit_limit,
            current_debt |-> credit_cards[card_id].current_debt]]
    /\ last' = Call("credit_card_init", s, 0, TRUE, card_id, <<>>, <<>>, 0, TRUE,
                    RowDebt(card_id), 0)
    /\ UNCHANGED <<schema, customers, employees, accounts, transactions, loans,
                   credit_cards, customerObj, accountObj, loanObj>>

----------------------------------------------------------------------------
(* Loan *)

NoLoanObj == [live |-> FALSE, loan_id |-> 0, customer_id |-> 0, amount |-> 0,
              interest_rate |-> 0, status |-> ""]

HasLoanRow(id) == id \in DOMAIN loans

\* the status column of the row an UPDATE ... WHERE loan_id = id touches
RowStatus(id) == IF HasLoanRow(id) THEN loans[id].status ELSE ""

\* an approve without the status check
ApproveAcceptsUnchecked(o) == o.loan_id # 0

\* Loan.approve: the condition under which the loan is approved
ApproveAccepts(o) == o.status = "Pending" /\ o.loan_id # 0

\* UPDATE loans SET status = ? WHERE loan_id = ?
UpdateStatus(id, status) ==
    IF HasLoanRow(id)
    THEN [loans EXCEPT ![id].status = status]
    ELSE loans

\* Loan.approve on the object o: the object afterwards (its status is set
\* before the UPDATE is issued), the table afterwards, the result, the log
\* lines (the warning is logged whenever the call does not return True) and
\* the writes
ApproveObj(o) == IF ApproveAccepts(o) THEN [o EXCEPT !.status = "Approved"] ELSE o

ApproveRows(o, ok) ==
    IF ApproveAccepts(o) /\ ok THEN UpdateStatus(o.loan_id, "Approved") ELSE loans

ApproveResult(o, ok) == ApproveAccepts(o) /\ ok

ApproveLogs(o, ok) ==
    IF ~ApproveAccepts(o) THEN <<"warning">>
    ELSE IF ok THEN <<"info">>
    ELSE DmlLog(FALSE) \o <<"warning">>

ApproveWrites(o, ok) == IF ApproveAccepts(o) THEN <<ok>> ELSE <<>>

Approve(s, ok) ==
    /\ loanObj[s].live
    /\ LET o == loanObj[s]
       IN  /\ loanObj' = [loanObj EXCEPT ![s] = ApproveObj(o)]
           /\ loans' = ApproveRows(o, ok)
           /\ last' = Call("approve", s, 0, ApproveResult(o, ok), 0,
                           ApproveLogs(o, ok), ApproveWrites(o, ok),
                           o.status, HasLoanRow(o.loan_id), RowStatus(o.loan_id), 0)
    /\ UNCHANGED <<schema, customers, employees, accounts, transactions, credit_cards,
                   customerObj, accountObj, cardObj>>

\* BankSystem.apply_for_loan, with Loan.save_new (status Pending by default);
\* the Loan object is kept in slot s.  The "Approve loan now?" prompt of the
\* function is the call Approve on that object.
ApplyForLoan(s, customer_id, amount, rate, readOk, ok) ==
    /\ LET done(success, id, logs, writes) ==
               Call("apply_for_loan", s, amount, success, id, logs, writes,
                    0, FALSE, 0, Len(loans))
           obj(id) == [live |-> TRUE, loan_id |-> id, customer_id |-> customer_id,
                       amount |-> amount, interest_rate |-> rate,
                       status |-> "Pending"]
       IN  IF ~CustomerFound(customer_id, readOk)
           THEN /\ last' = done(FALSE, 0,
                                CustomerLoadLog(customer_id, readOk) \o <<"warning">>,
                                <<>>)
                /\ UNCHANGED <<loans, loanObj>>
           ELSE IF ok
           THEN /\ Len(loans) + 1 \in LoanIds
                /\ loans' = Append(loans,
                       [customer_id |-> customer_id, amount |-> amount,
                        interest_rate |-> rate, status |-> "Pending"])
                /\ loanObj' = [loanObj EXCEPT ![s] = obj(Len(loans) + 1)]
                /\ last' = done(TRUE, Len(loans) + 1, <<"info">>, <<TRUE>>)
           ELSE /\ loanObj' = [loanObj EXCEPT ![s] = obj(0)]
                /\ last' = done(FALSE, 0, DmlLog(FALSE), <<FALSE>>)
                /\ UNCHANGED loans
    /\ UNCHANGED <<schema, customers, employees, accounts, transactions, credit_cards,
                   customerObj, accountObj, cardObj>>

----------------------------------------------------------------------------
(* specifications *)

\* the state after BankDatabase.__init__: every table exists and is empty
Init ==
    /\ customers = <<>>
    /\ employees = <<>>
    /\ accounts = <<>>
    /\ transactions = <<>>
    /\ loans = <<>>
    /\ credit_cards = <<>>
    /\ customerObj = [s \in CustomerSlots |-> NoCustomerObj]
    /\ schema = SchemaReady
    /\ accountObj = [s \in AccountSlots |-> NoAccountObj]
    /\ loanObj = [s \in LoanSlots |-> NoLoanObj]
    /\ cardObj = [s \in CardSlots |-> NoCardObj]
    /\ last = NoCall

\* one customer is enrolled (create_customer, done once)
InitEnrolled ==
    /\ customers = << [first_name |-> <<"A">>, last_name |-> <<"A">>,
                       address |-> <<"B">>, join_date |-> Today] >>
    /\ employees = <<>>
    /\ accounts = <<>>
    /\ transactions = <<>>
    /\ loans = <<>>
    /\ credit_cards = <<>>
    /\ customerObj = [s \in CustomerSlots |-> NoCustomerObj]
    /\ schema = SchemaReady
    /\ accountObj = [s \in AccountSlots |-> NoAccountObj]
    /\ loanObj = [s \in LoanSlots |-> NoLoanObj]
    /\ cardObj = [s \in CardSlots |-> NoCardObj]
    /\ last = NoCall

NextPeople ==
    \/ \E s \in CustomerSlots, f \in Names, l \in Names, a \in Addresses,
          ok \in BOOLEAN :
          CustomerSaveNew(s, f, l, a, ok)
    \/ \E f \in Names, l \in Names, a \in Addresses, ok \in BOOLEAN :
          CreateCustomer(f, l, a, ok)
    \/ \E s \in CustomerSlots, i \in CustomerIds \cup {2}, r \in BOOLEAN :
          LoadCustomer(s, i, r)
    \/ \E s \in CustomerSlots, a \in NewAddresses, ok \in BOOLEAN :
          SetAddress(s, a, ok)
    \/ \E f \in Names, l \in Names, p \in Positions, y \in Salaries,
          ok \in BOOLEAN :
          EmployeeSaveNew(f, l, p, y, ok)
    \/ \E f \in Names, l \in Names, p \in Positions, y \in Salaries,
          ok \in BOOLEAN :
          AddEmployee(f, l, p, y, ok)

SpecPeople == Init /\ [][NextPeople]_vars

NextAccounts ==
    \/ \E c \in 1 .. 2, t \in AccountTypes, a \in InitialDeposits,
          r \in BOOLEAN, ok \in BOOLEAN :
          CreateAccount(c, t, a, r, ok)
    \/ \E s \in AccountSlots, i \in AccountIds \cup {2}, r \in BOOLEAN :
          LoadAccount(s, i, r)
    \/ \E s \in AccountSlots, a \in Amounts, w \in WriteOutcomes :
          Deposit(s, a, w[1], w[2])
    \/ \E s \in AccountSlots, a \in Amounts, w \in WriteOutcomes :
          Withdraw(s, a, w[1], w[2])

SpecAccounts == InitEnrolled /\ [][NextAccounts]_vars

NextServices ==
    \/ \E s \in CardSlots, c \in 1 .. 2, l \in CreditLimits,
          r \in BOOLEAN, ok \in BOOLEAN :
          IssueCreditCard(s, c, l, r, ok)
    \/ \E s \in CardSlots, a \in PurchaseAmounts, ok \in BOOLEAN :
          MakePurchase(s, a, ok)
    \/ \E s \in LoanSlots, c \in 1 .. 2, a \in LoanAmounts, i \in LoanRates,
          r \in BOOLEAN, ok \in BOOLEAN :
          ApplyForLoan(s, c, a, i, r, ok)
    \/ \E s \in LoanSlots, ok \in BOOLEAN :
          Approve(s, ok)

SpecServices == InitEnrolled /\ [][NextServices]_vars

\* The whole program.  The three families of operations share no variable
\* but customers, which the account and service operations only read
\* (Customer.load) and which SpecAccounts and SpecServices cover with an
\* existing and a missing customer id: a behaviour of Spec restricted to the
\* variables of one family is a behaviour of that family's specification.
Next == NextPeople \/ NextAccounts \/ NextServices

Spec == Init /\ [][Next]_vars

\* The mutators alone, each on an entity as its creation leaves it: an
\* account opened with an initial deposit and loaded into slot 1, or a card
\* just issued, or a loan just applied for.
AccountLoaded(b) ==
    /\ accounts = << [customer_id |-> 1, balance |-> b,
                      account_type |-> "Savings", is_active |-> 1] >>
    /\ accountObj = [s \in AccountSlots |->
                       IF s = 1
                       THEN [live |-> TRUE, account_id |-> 1, customer_id |-> 1,
                             balance |-> b, account_type |-> "Savings"]
                       ELSE NoAccountObj]
    /\ credit_cards = <<>>
    /\ cardObj = [s \in CardSlots |-> NoCardObj]
    /\ loans = <<>>
    /\ loanObj = [s \in LoanSlots |-> NoLoanObj]
    /\ last = Call("load_account", 1, 0, TRUE, 1, <<>>, <<>>, 0, TRUE, b, 0)

CardIssued(l) ==
    /\ accounts = <<>>
    /\ accountObj = [s \in AccountSlots |-> NoAccountObj]
    /\ credit_cards = << [customer_id |-> 1, credit_limit |-> l,
                          current_debt |-> 0, is_active |-> 1] >>
    /\ cardObj = [s \in CardSlots |->
                    IF s = 1
                    THEN [live |-> TRUE, card_id |-> 1, customer_id |-> 1,
                          credit_limit |-> l, current_debt |-> 0]
                    ELSE NoCardObj]
    /\ loans = <<>>
    /\ loanObj = [s \in LoanSlots |-> NoLoanObj]
    /\ last = Call("issue_credit_card", 1, l, TRUE, 1, <<"info">>, <<TRUE>>,
                   0, FALSE, 0, 0)

LoanApplied(a, i) ==
    /\ accounts = <<>>
    /\ accountObj = [s \in AccountSlots |-> NoAccountObj]
    /\ credit_cards = <<>>
    /\ cardObj = [s \in CardSlots |-> NoCardObj]
    /\ loans = << [customer_id |-> 1, amount |-> a, interest_rate |-> i,
                   status |-> "Pending"] >>
    /\ loanObj = [s \in LoanSlots |->
                    [live |-> TRUE, loan_id |-> 1, customer_id |-> 1,
                     amount |-> a, interest_rate |-> i, status |-> "Pending"]]
    /\ last = Call("apply_for_loan", 1, a, TRUE, 1, <<"info">>, <<TRUE>>,
                   0, FALSE, 0, 0)

InitMutators ==
    /\ customers = << [first_name |-> <<"A">>, last_name |-> <<"A">>,
                       address |-> <<"B">>, join_date |-> Today] >>
    /\ employees = <<>>
    /\ transactions = <<>>
    /\ customerObj = [s \in CustomerSlots |-> NoCustomerObj]
    /\ schema = SchemaReady
    /\ \/ \E b \in {x \in InitialDeposits : x >= 0} \cup Amounts : AccountLoaded(b)
       \/ \E l \in CreditLimits : CardIssued(l)
       \/ \E a \in LoanAmounts, i \in LoanRates : LoanApplied(a, i)

NextMutators ==
    \/ \E s \in AccountSlots, a \in Amounts, w \in WriteOutcomes :
          Deposit(s, a, w[1], w[2])
    \/ \E s \in AccountSlots, a \in Amounts, w \in WriteOutcomes :
          Withdraw(s, a, w[1], w[2])
    \/ \E s \in CardSlots, a \in PurchaseAmounts, ok \in BOOLEAN :
          MakePurchase(s, a, ok)
    \/ \E s \in LoanSlots, ok \in BOOLEAN :
          Approve(s, ok)

SpecMutators == InitMutators /\ [][NextMutators]_vars

\* The card operations on a store whose writes succeed, with the objects of
\* a card that callers construct for themselves.
NextCards ==
    \/ \E s \in CardSlots, c \in 1 .. 2, l \in CreditLimits, r \in BOOLEAN :
          IssueCreditCard(s, c, l, r, TRUE)
    \/ \E s \in CardSlots, i \in CardIds :
          CreditCardInit(s, i)
    \/ \E s \in CardSlots, a \in PurchaseAmounts :
          MakePurchase(s, a, TRUE)

SpecCards == InitEnrolled /\ [][NextCards]_vars

\* The program from its start: BankSystem() builds the BankDatabase, then
\* run_menu takes the choices.  A statement succeeds only on a table that
\* exists.
InitStartup ==
    /\ customers = <<>>
    /\ employees = <<>>
    /\ accounts = <<>>
    /\ transactions = <<>>
    /\ loans = <<>>
    /\ credit_cards = <<>>
    /\ customerObj = [s \in CustomerSlots |-> NoCustomerObj]
    /\ accountObj = [s \in AccountSlots |-> NoAccountObj]
    /\ loanObj = [s \in LoanSlots |-> NoLoanObj]
    /\ cardObj = [s \in CardSlots |-> NoCardObj]
    /\ schema = NoSchema
    /\ last = NoCall

NextStartup ==
    \/ \E c \in BOOLEAN, k \in SchemaFailurePoints :
          BankDatabaseInit(c, k)
    \/ \E f \in Names, l \in Names, a \in Addresses, ok \in BOOLEAN :
          /\ schema.built
          /\ ok => TableReady("customers")
          /\ CreateCustomer(f, l, a, ok)
    \/ \E f \in Names, l \in Names, p \in Positions, y \in Salaries,
          ok \in BOOLEAN :
          /\ schema.built
          /\ ok => TableReady("employees")
          /\ AddEmployee(f, l, p, y, ok)
    \/ \E c \in 1 .. 2, t \in AccountTypes, a \in InitialDeposits,
          r \in BOOLEAN, ok \in BOOLEAN :
          /\ schema.built
          /\ r => TableReady("customers")
          /\ ok => TableReady("accounts")
          /\ CreateAccount(c, t, a, r, ok)

SpecStartup == InitStartup /\ [][NextStartup]_vars

----------------------------------------------------------------------------
(* the claims *)

AllWritesOk(c) == \A i \in DOMAIN c.writes : c.writes[i]

SomeWriteFailed(c) == \E i \in DOMAIN c.writes : ~c.writes[i]

AccountCall(c) == c.op \in {"deposit", "withdraw"}

\* C1: the balance of every row of the accounts table and of every Account
\* object is >= 0 in every reachable state.
C1_BalanceNonNegative ==
    /\ \A i \in DOMAIN accounts : accounts[i].balance >= 0
    /\ \A s \in AccountSlots : accountObj[s].live => accountObj[s].balance >= 0

\* C2: a withdraw whose amount exceeds the balance of the object it is called
\* on returns False, leaves the object's balance and the row's balance as
\* they were and adds no row to the transactions table.
C2_WithdrawInsufficient ==
    (last.op = "withdraw" /\ last.amount > last.snapBefore) =>
        /\ ~last.ok
        /\ accountObj[last.obj].balance = last.snapBefore
        /\ last.hadRow =>
               accounts[accountObj[last.obj].account_id].balance = last.rowBefore
        /\ Len(transactions) = last.rowsBefore

C2_Witness ==
    /\ last.op = "withdraw"
    /\ last.amount > 0
    /\ last.amount > last.snapBefore
    /\ last.hadRow
    /\ ~last.ok

\* C3: for every card issued with 0 <= current_debt <= credit_limit,
\* 0 <= current_debt <= credit_limit holds for the row and for the saved
\* CreditCard object, whatever make_purchase calls were made.
C3_DebtWithinLimit ==
    /\ \A s \in CardSlots : (cardObj[s].live /\ cardObj[s].card_id # 0) =>
           /\ 0 <= cardObj[s].current_debt
           /\ cardObj[s].current_debt <= cardObj[s].credit_limit
    /\ \A i \in DOMAIN credit_cards :
           /\ 0 <= credit_cards[i].current_debt
           /\ credit_cards[i].current_debt <= credit_cards[i].credit_limit

\* a first call of approve: on a saved loan whose status is Pending
FirstApprove(c) == c.op = "approve" /\ c.snapBefore = "Pending" /\ c.hadRow

C5_RoundTrip ==
    [][(/\ last.op = "deposit" /\ last.ok /\ AllWritesOk(last)
        /\ last.hadRow /\ last.snapBefore >= 0
        /\ last'.op = "withdraw" /\ last'.obj = last.obj
        /\ last'.amount = last.amount /\ AllWritesOk(last')) =>
           /\ last'.ok
           /\ accountObj'[last.obj].balance = last.snapBefore
           /\ accounts'[accountObj'[last.obj].account_id].balance = last.rowBefore]_vars

\* C6: a deposit of amount > 0 that returns True has raised the balance of
\* the row and of the object by exactly amount and has appended exactly one
\* row (account, "Deposit", amount) to the transactions table (stated for an
\* object that agreed with its row, balance >= 0, before the call).
C6_DepositApplied ==
    (last.op = "deposit" /\ last.ok /\ last.hadRow /\ last.rowBefore >= 0
         /\ last.snapBefore = last.rowBefore) =>
        LET id == accountObj[last.obj].account_id
        IN  /\ accounts[id].balance = last.rowBefore + last.amount
            /\ accountObj[last.obj].balance = last.snapBefore + last.amount
            /\ Len(transactions) = last.rowsBefore + 1
            /\ transactions[Len(transactions)] =
                   [account_id |-> id, txn_type |-> "Deposit",
                    amount |-> last.amount]

\* the ground on which the call c is to be rejected, from its arguments and
\* the object as it was before the call
RejectionGround(c, limit) ==
    \/ c.op = "deposit" /\ c.amount <= 0
    \/ c.op = "withdraw" /\ (c.amount <= 0 \/ c.amount > c.snapBefore)
    \/ c.op = "make_purchase" /\
           (c.amount <= 0 \/ c.amount > FlSub(limit, c.snapBefore))
    \/ c.op = "approve" /\ c.snapBefore # "Pending"

LimitOf(c) == IF c.op = "make_purchase" THEN cardObj[c.obj].credit_limit ELSE 0

\* C7: a call of deposit, withdraw, make_purchase or approve that is to be
\* rejected (amount <= 0, amount > balance, amount > limit - debt, status not
\* Pending) returns False, issues no storage write and changes no row and no
\* field of any object.
C7_RejectedBeforeWrite ==
    [][RejectionGround(last', LimitOf(last')) =>
           /\ ~last'.ok
           /\ last'.writes = <<>>
           /\ UNCHANGED <<customers, employees, accounts, transactions, loans,
                          credit_cards, customerObj, accountObj, loanObj,
                          cardObj>>]_vars

\* a purchase beyond the available credit has been rejected
C7_Witness ==
    /\ last.op = "make_purchase"
    /\ last.amount > 0
    /\ last.amount > FlSub(cardObj[last.obj].credit_limit, last.snapBefore)
    /\ last.snapBefore > 0
    /\ ~last.ok

PeopleInsert(c) ==
    c.op \in {"customer_save_new", "create_customer", "employee_save_new",
              "add_employee"}

\* C8: an insert of a customer or an employee whose first or last name is
\* empty reports a failure: it returns no id and adds no row.
C8_EmptyNameRejected ==
    (PeopleInsert(last) /\ (last.amount[1] = <<>> \/ last.amount[2] = <<>>)) =>
        /\ ~last.ok
        /\ last.id = 0
        /\ last.op \in {"customer_save_new", "create_customer"} =>
               Len(customers) = last.rowsBefore
        /\ last.op \in {"employee_save_new", "add_employee"} =>
               Len(employees) = last.rowsBefore

\* C9: after a call of deposit, withdraw, make_purchase or approve on an
\* object whose row exists and agreed with the object before the call, the
\* mutated field of the object equals that of the row.
C9_SnapshotMatchesRow ==
    /\ (AccountCall(last) /\ last.hadRow /\ last.snapBefore = last.rowBefore) =>
           accountObj[last.obj].balance =
               accounts[accountObj[last.obj].account_id].balance
    /\ (last.op = "make_purchase" /\ last.hadRow
           /\ last.snapBefore = last.rowBefore) =>
           cardObj[last.obj].current_debt =
               credit_cards[cardObj[last.obj].card_id].current_debt
    /\ (last.op = "approve" /\ last.hadRow /\ last.snapBefore = last.rowBefore) =>
           loanObj[last.obj].status = loans[loanObj[last.obj].loan_id].status

\* C10: a call during which a storage write failed does not report success.
C10_WriteFailureReported == SomeWriteFailed(last) => ~last.ok

\* C11: when create_tables has failed, the failure has reached the caller of
\* the constructor as an exception and no operation is executed after it
\* (the failed create_tables is the last call there is).
C11_SchemaFailureFatal ==
    schema.failed => (schema.raised /\ last.op = "create_tables")

\* the repository and mutator operations called on an entity object
EntityCall(c) ==
    c.op \in {"customer_save_new", "employee_save_new", "load_customer",
              "load_account", "deposit", "withdraw", "make_purchase",
              "approve"}

\* C12: every call of save_new, load, deposit, withdraw, make_purchase or
\* approve emits exactly one log line, whatever its outcome (success,
\* rejection, not found, storage failure).
C12_OneLogPerCall == EntityCall(last) => Len(last.logs) = 1

\* the balance a deposit or a withdraw c makes of the persisted balance b
Applied(c, b) ==
    IF c.op = "deposit" THEN FlAdd(b, c.amount) ELSE FlSub(b, c.amount)

\* a deposit or a withdraw called on an object whose balance was not the
\* persisted one: another object of the same account was used in between
StaleCall(c) == AccountCall(c) /\ c.hadRow /\ c.snapBefore # c.rowBefore

C14_DebtIsSumOfPurchases ==
    (last.op = "make_purchase" /\ last.hadRow) =>
        RowDebt(cardObj[last.obj].card_id) =
            IF last.ok THEN FlAdd(last.rowBefore, last.amount)
            ELSE last.rowBefore

====
